---- MODULE Spec2Model ----
(***************************************************************************)
(* Model of run.py: a propositional theory of a directed graph on          *)
(* NUM_NODES nodes (Edge, Adjacent, Distance, Reachable, and the property  *)
(* STRONGLY_CONNECTED), built by build_theory, compiled, solved and        *)
(* decoded by print_graph.                                                 *)
(*                                                                         *)
(* Nodes are the indices 0..NUM_NODES-1; the source names them f'n{i}',    *)
(* which is injective, so a proposition is identified by its class and its *)
(* index tuple.  An assignment is a record of truth tables, one per class, *)
(* each given as the set of its true propositions.                         *)
(* The external SAT solver is a black box: the compiled theory T is        *)
(* represented by the set of its satisfying assignments, satisfiable() by  *)
(* non-emptiness and solve() by an arbitrary element (or None).            *)
(*                                                                         *)
(* The script has two switches that are edited in the source: the flag     *)
(* FORCE_DISCONNECTED (line 12, shipped False) and the example_graph call  *)
(* at the end of build_theory (line 203, shipped with graph 2).  The model *)
(* ranges over both values of the flag and over graph 1, graph 2 and the   *)
(* call left out (version 0).                                              *)
(***************************************************************************)
EXTENDS Integers, FiniteSets, Sequences, TLC

\* Largest node count below the example graphs' size; up to it the theory
\* is also solved with no example graph pinning the edges.
MaxNodes == 3

\* example_graph asserts NUM_NODES == 4.
ExampleNodes == 4

VARIABLES
    NUM_NODES,           \* int(sys.argv[1])
    FORCE_DISCONNECTED,  \* module flag, line 12
    version,             \* argument of the example_graph call, 0: no call
    pc,                  \* position in the script
    E,                   \* the Encoding: the constraint blocks added so far
    T,                   \* the compiled theory: its satisfying assignments
    satisfiable,         \* printed verdict: "unknown", "True", "False"
    sol,                 \* T.solve(): {} is None, {m} a model m
    printed,             \* print_graph has been entered
    out                  \* what print_graph decoded

vars == <<NUM_NODES, FORCE_DISCONNECTED, version, pc, E, T, satisfiable, sol,
          printed, out>>

Nodes == 0 .. (NUM_NODES - 1)
Dists == 0 .. NUM_NODES
Pairs == Nodes \X Nodes
Triples == Nodes \X Nodes \X Dists
Rows == SUBSET Nodes

\* An assignment gives, for each class, the set of its true propositions.
\* all_edges / all_adjacent / all_distances: every proposition, here false
\* until the solver's search assigns it.
Blank ==
    [Edge |-> {},
     Adjacent |-> {},
     Distance |-> {},
     Reachable |-> {},
     STRONGLY_CONNECTED |-> FALSE]

(***************************************************************************)
(* The constraints, one operator per E.add_constraint call of the source.  *)
(* Each takes the assignment s and the loop indices of the call.           *)
(***************************************************************************)

\* line 131: ~Edge(node, node)
NoSelfLoop(s, node) == <<node, node>> \notin s.Edge

\* line 137: edge >> Adjacent(x, y)
EdgeIsAdjacent(s, x, y) == <<x, y>> \in s.Edge => <<x, y>> \in s.Adjacent

\* line 139: Adjacent(x, y) >> Adjacent(y, x)
AdjacentSymmetric(s, x, y) == <<x, y>> \in s.Adjacent => <<y, x>> \in s.Adjacent

\* line 141: Adjacent(x, y) >> (Edge(x, y) | Edge(y, x))
AdjacentHasEdge(s, x, y) ==
    <<x, y>> \in s.Adjacent => (<<x, y>> \in s.Edge \/ <<y, x>> \in s.Edge)

\* The base case left out.
DistanceSelfMissing(s, node) == TRUE

\* lines 145 and 181: Distance(node, node, 0)
DistanceSelf(s, node) == <<node, node, 0>> \in s.Distance

\* lines 149-150: edge >> Distance(edge.x, edge.y, 1)
OneHop(s, x, y) == <<x, y>> \in s.Edge => <<x, y, 1>> \in s.Distance

\* Closed walks left out: no constraint when n1 and n3 are the same node.
TransitiveOpenOnly(s, n1, n2, n3, d1, d2, d3) ==
    (d3 = d1 + d2 /\ n1 # n3) =>
        ((<<n1, n2, d1>> \in s.Distance /\ <<n2, n3, d2>> \in s.Distance)
            => <<n1, n3, d3>> \in s.Distance)

\* lines 160-165: emitted when d3 == d1+d2
Transitive(s, n1, n2, n3, d1, d2, d3) ==
    (d3 = d1 + d2) =>
        ((<<n1, n2, d1>> \in s.Distance /\ <<n2, n3, d2>> \in s.Distance)
            => <<n1, n3, d3>> \in s.Distance)

\* The weaker variant: the predecessor only has to be adjacent to n3.
WellSupportedByAdjacent(s, n1, n3, d) ==
    <<n1, n3, d>> \in s.Distance =>
        \E n2 \in Nodes :
            <<n2, n3>> \in s.Adjacent /\ <<n1, n2, d - 1>> \in s.Distance

\* lines 174-177: Distance(n1, n3, d) >> Or(predecessors)
WellSupported(s, n1, n3, d) ==
    <<n1, n3, d>> \in s.Distance =>
        \E n2 \in Nodes :
            <<n2, n3>> \in s.Edge /\ <<n1, n2, d - 1>> \in s.Distance

\* The guard "if other != node" left out.
ZeroOnlySelfUnguarded(s, node, other) == <<node, other, 0>> \notin s.Distance

\* lines 182-184: ~Distance(node, other, 0) if other != node
ZeroOnlySelf(s, node, other) ==
    (other # node) => <<node, other, 0>> \notin s.Distance

\* Only the direction from n0 is collected.
AllConnectionsOneWay(s) ==
    \A n1 \in Nodes : \E d \in Dists : <<0, n1, d>> \in s.Distance

\* lines 190-198: And(all_connections)
AllConnections(s) ==
    \A n1 \in Nodes :
        /\ \E d \in Dists : <<0, n1, d>> \in s.Distance
        /\ \E d \in Dists : <<n1, 0, d>> \in s.Distance

\* lines 199-200: STRONGLY_CONNECTED >> And(..), And(..) >> STRONGLY_CONNECTED
StronglyConnected(s) ==
    /\ s.STRONGLY_CONNECTED => AllConnections(s)
    /\ AllConnections(s) => s.STRONGLY_CONNECTED

\* The pair (2,3) of graph 1 typed as (3,2).
desired_edges_typo(v) ==
    IF v = 1 THEN {<<0, 1>>, <<1, 2>>, <<2, 0>>, <<3, 2>>, <<3, 1>>}
             ELSE {<<0, 1>>, <<1, 2>>, <<2, 3>>, <<3, 0>>}

\* lines 113-116
desired_edges(v) ==
    IF v = 1 THEN {<<0, 1>>, <<1, 2>>, <<2, 0>>, <<2, 3>>, <<3, 1>>}
             ELSE {<<0, 1>>, <<1, 2>>, <<2, 3>>, <<3, 0>>}

\* lines 120-123
ExampleEdge(s, n1, n2) ==
    IF <<n1, n2>> \in desired_edges(version)
        THEN <<n1, n2>> \in s.Edge
        ELSE <<n1, n2>> \notin s.Edge

\* Asserts stripped (python -O).
AssertStripped(n) == TRUE

\* line 111: assert NUM_NODES == 4
ExampleAssert(n) == n = ExampleNodes

\* line 99: Reachable(n0)
ReachableRoot(s) == 0 \in s.Reachable

\* The conclusion names n1 again instead of n2.
ReachablePropagatesTypo(s, n1, n2) ==
    (n1 \in s.Reachable /\ <<n1, n2>> \in s.Adjacent) => n1 \in s.Reachable

\* line 104: (Reachable(n1) & Adjacent(n1, n2)) >> Reachable(n2)
ReachablePropagates(s, n1, n2) ==
    (n1 \in s.Reachable /\ <<n1, n2>> \in s.Adjacent) => n2 \in s.Reachable

\* line 107: Or([~Reachable(n) for n in range(NUM_NODES)])
SomeUnreachable(s) == \E n \in Nodes : n \notin s.Reachable

(***************************************************************************)
(* The theory: the conjunction of the constraints of the blocks in E.      *)
(* The solver's search assigns the truth tables row by row (the Edge rows, *)
(* the Adjacent rows, the Distance rows in the order (d, x), then          *)
(* STRONGLY_CONNECTED and Reachable); a constraint is in scope once every  *)
(* proposition it mentions is assigned, and is checked at the step that    *)
(* assigns the last of them.  With every row assigned the scoped theory is *)
(* the whole theory (Satisfies).                                           *)
(***************************************************************************)

RowOf(x, d) == d * NUM_NODES + x
AllRows == NUM_NODES * (NUM_NODES + 1)

\* lines 130-131 and example_graph, over the Edge rows below k
EdgeTheory(s, k) ==
    /\ "self_loops" \in E =>
         \A node \in Nodes : node < k => NoSelfLoop(s, node)
    /\ "example_graph" \in E =>
         \A n1, n2 \in Nodes : n1 < k => ExampleEdge(s, n1, n2)

\* lines 134-141, over the Adjacent rows below k
AdjacentTheory(s, k) ==
    "adjacency" \in E =>
        \A x, y \in Nodes : (x < k /\ y < k) =>
            /\ EdgeIsAdjacent(s, x, y)
            /\ AdjacentSymmetric(s, x, y)
            /\ AdjacentHasEdge(s, x, y)

\* lines 143-184, over the Distance rows below k; the constraints that
\* mention only rows below lo are left to the earlier steps of the search
DistanceTheory(s, lo, k) ==
    /\ "distance_self" \in E =>
         \A node \in Nodes : RowOf(node, 0) \in lo .. (k - 1) =>
             DistanceSelf(s, node)
    /\ "one_hop" \in E =>
         \A x, y \in Nodes : RowOf(x, 1) \in lo .. (k - 1) => OneHop(s, x, y)
    /\ "transitive" \in E =>
         \A n1 \in Nodes, d1 \in Dists : RowOf(n1, d1) < k =>
             \A n2 \in Nodes, d2 \in Dists : RowOf(n2, d2) < k =>
                 \A d3 \in {d1 + d2} \cap Dists :
                     (/\ RowOf(n1, d3) < k
                      /\ \/ RowOf(n1, d1) >= lo
                         \/ RowOf(n2, d2) >= lo
                         \/ RowOf(n1, d3) >= lo) =>
                         \A n3 \in Nodes :
                             Transitive(s, n1, n2, n3, d1, d2, d3)
    /\ "well_supported" \in E =>
         \A n1, n3 \in Nodes : \A d \in 1 .. NUM_NODES :
             RowOf(n1, d) \in lo .. (k - 1) => WellSupported(s, n1, n3, d)
    /\ "zero_only_self" \in E =>
         \A node \in Nodes : RowOf(node, 0) \in lo .. (k - 1) =>
             /\ DistanceSelf(s, node)
             /\ \A other \in Nodes : ZeroOnlySelf(s, node, other)

\* lines 186-200
PropertyTheory(s) == "strongly_connected" \in E => StronglyConnected(s)

\* force_disconnected, lines 96-107
ReachableTheory(s) ==
    "force_disconnected" \in E =>
        /\ ReachableRoot(s)
        /\ \A n1, n2 \in Nodes : ReachablePropagates(s, n1, n2)
        /\ SomeUnreachable(s)

\* s satisfies every constraint of E
Satisfies(s) ==
    /\ EdgeTheory(s, NUM_NODES)
    /\ AdjacentTheory(s, NUM_NODES)
    /\ DistanceTheory(s, 0, AllRows)
    /\ PropertyTheory(s)
    /\ ReachableTheory(s)

\* the assignment s with row x of a truth table set: row is the set of the
\* y whose proposition is true
WithEdgeRow(s, x, row) ==
    [s EXCEPT !.Edge = @ \cup {<<x, y>> : y \in row}]

WithAdjacentRow(s, x, row) ==
    [s EXCEPT !.Adjacent = @ \cup {<<x, y>> : y \in row}]

WithDistanceRow(s, k, row) ==
    [s EXCEPT !.Distance =
        @ \cup {<<k % NUM_NODES, y, k \div NUM_NODES>> : y \in row}]

RECURSIVE EdgeSearch(_, _)
EdgeSearch(S, k) ==
    IF k = NUM_NODES THEN S
    ELSE EdgeSearch(
            UNION {{t \in {WithEdgeRow(s, k, row) : row \in Rows} :
                        EdgeTheory(t, k + 1)} : s \in S},
            k + 1)

RECURSIVE AdjacentSearch(_, _)
AdjacentSearch(S, k) ==
    IF k = NUM_NODES THEN S
    ELSE AdjacentSearch(
            UNION {{t \in {WithAdjacentRow(s, k, row) : row \in Rows} :
                        AdjacentTheory(t, k + 1)} : s \in S},
            k + 1)

RECURSIVE DistanceSearch(_, _)
DistanceSearch(S, k) ==
    IF k = AllRows THEN S
    ELSE DistanceSearch(
            UNION {{t \in {WithDistanceRow(s, k, row) : row \in Rows} :
                        DistanceTheory(t, k, k + 1)} : s \in S},
            k + 1)

PropertySearch(S) ==
    UNION {{t \in {[s EXCEPT !.STRONGLY_CONNECTED = b] : b \in BOOLEAN} :
                PropertyTheory(t)} : s \in S}

\* Reachable propositions exist only in the force_disconnected block.
ReachableSearch(S) ==
    IF "force_disconnected" \in E
        THEN UNION {{t \in {[s EXCEPT !.Reachable = row] : row \in Rows} :
                        ReachableTheory(t)} : s \in S}
        ELSE S

\* The satisfying assignments of the theory E.
Models ==
    ReachableSearch(PropertySearch(
        DistanceSearch(AdjacentSearch(EdgeSearch({Blank}, 0), 0), 0)))

(***************************************************************************)
(* print_graph: the decoded view of a model.                               *)
(***************************************************************************)

RECURSIVE Ascending(_)
Ascending(S) ==
    IF S = {} THEN << >>
    ELSE LET m == CHOOSE a \in S : \A b \in S : a <= b
         IN  <<m>> \o Ascending(S \ {m})

\* lines 214-219: for n1, the n2 in index order with Edge(n1, n2) true
AdjacencyList(m) ==
    [n1 \in Nodes |-> Ascending({n2 \in Nodes : <<n1, n2>> \in m.Edge})]

RECURSIVE DistancePairs(_, _, _)
DistancePairs(m, d, n1) ==
    IF n1 = NUM_NODES THEN << >>
    ELSE LET row == Ascending({n2 \in Nodes : <<n1, n2, d>> \in m.Distance})
         IN  [i \in 1 .. Len(row) |-> <<n1, row[i]>>]
                 \o DistancePairs(m, d, n1 + 1)

\* lines 221-230: for d, the pairs (n1, n2) in loop order with Distance true
DistanceTable(m) == [d \in Dists |-> DistancePairs(m, d, 0)]

\* lines 232-240: only printed when FORCE_DISCONNECTED
ReachableList(m) ==
    IF FORCE_DISCONNECTED
        THEN Ascending({n \in Nodes : n \in m.Reachable})
        ELSE << >>

Decoded(m) ==
    [adjacency |-> AdjacencyList(m),
     distances |-> DistanceTable(m),
     reachable |-> ReachableList(m),
     strongly_connected |-> m.STRONGLY_CONNECTED]

(***************************************************************************)
(* The script.                                                             *)
(***************************************************************************)

Init ==
    /\ NUM_NODES \in (1 .. MaxNodes) \cup {ExampleNodes}
    /\ version \in IF NUM_NODES <= MaxNodes THEN 0 .. 2 ELSE 1 .. 2
    /\ FORCE_DISCONNECTED \in BOOLEAN
    /\ pc = "self_loops"
    /\ E = {}
    /\ T = {}
    /\ satisfiable = "unknown"
    /\ sol = {}
    /\ printed = FALSE
    /\ out = << >>

\* One block of build_theory: add its constraints to E and go on.
AddBlock(at, block, next) ==
    /\ pc = at
    /\ E' = E \cup {block}
    /\ pc' = next
    /\ UNCHANGED <<NUM_NODES, FORCE_DISCONNECTED, version, T, satisfiable,
                   sol, printed, out>>

AddSelfLoops == AddBlock("self_loops", "self_loops", "adjacency")

AddAdjacency == AddBlock("adjacency", "adjacency", "distance_self")

AddDistanceSelf == AddBlock("distance_self", "distance_self", "one_hop")

AddOneHop == AddBlock("one_hop", "one_hop", "transitive")

AddTransitive == AddBlock("transitive", "transitive", "well_supported")

AddWellSupported ==
    AddBlock("well_supported", "well_supported", "zero_only_self")

AddZeroOnlySelf ==
    AddBlock("zero_only_self", "zero_only_self", "strongly_connected")

AddStronglyConnected ==
    AddBlock("strongly_connected", "strongly_connected", "example_graph")

\* line 203 and example_graph: the assert, then the pinned edges
ExampleGraph ==
    /\ pc = "example_graph"
    /\ version # 0
    /\ IF ExampleAssert(NUM_NODES)
          THEN /\ E' = E \cup {"example_graph"}
               /\ pc' = "force_disconnected"
          ELSE /\ E' = E
               /\ pc' = "AssertionError"
    /\ UNCHANGED <<NUM_NODES, FORCE_DISCONNECTED, version, T, satisfiable,
                   sol, printed, out>>

\* build_theory without the example_graph call
NoExampleGraph ==
    /\ pc = "example_graph"
    /\ version = 0
    /\ pc' = "force_disconnected"
    /\ UNCHANGED <<NUM_NODES, FORCE_DISCONNECTED, version, E, T, satisfiable,
                   sol, printed, out>>

\* lines 205-208
ForceDisconnected ==
    /\ pc = "force_disconnected"
    /\ E' = IF FORCE_DISCONNECTED THEN E \cup {"force_disconnected"} ELSE E
    /\ pc' = "compile"
    /\ UNCHANGED <<NUM_NODES, FORCE_DISCONNECTED, version, T, satisfiable,
                   sol, printed, out>>

\* line 248: T = T.compile()
Compile ==
    /\ pc = "compile"
    /\ T' = Models
    /\ pc' = "satisfiable"
    /\ UNCHANGED <<NUM_NODES, FORCE_DISCONNECTED, version, E, satisfiable,
                   sol, printed, out>>

\* line 251: print("Satisfiable: %s" % T.satisfiable())
Satisfiable ==
    /\ pc = "satisfiable"
    /\ satisfiable' = IF T # {} THEN "True" ELSE "False"
    /\ pc' = "solve"
    /\ UNCHANGED <<NUM_NODES, FORCE_DISCONNECTED, version, E, T, sol,
                   printed, out>>

\* line 256: sol = T.solve(), any model, None when there is none
Solve ==
    /\ pc = "solve"
    /\ \/ \E m \in T : sol' = {m}
       \/ T = {} /\ sol' = {}
    /\ pc' = "print_graph"
    /\ UNCHANGED <<NUM_NODES, FORCE_DISCONNECTED, version, E, T, satisfiable,
                   printed, out>>

\* line 257: print_graph(sol), called whatever the verdict; subscripting
\* None raises TypeError at line 217
PrintGraph ==
    /\ pc = "print_graph"
    /\ printed' = TRUE
    /\ IF sol = {}
          THEN /\ out' = out
               /\ pc' = "TypeError"
          ELSE /\ out' = Decoded(CHOOSE m \in sol : TRUE)
               /\ pc' = "done"
    /\ UNCHANGED <<NUM_NODES, FORCE_DISCONNECTED, version, E, T, satisfiable,
                   sol>>

Next ==
    \/ AddSelfLoops
    \/ AddAdjacency
    \/ AddDistanceSelf
    \/ AddOneHop
    \/ AddTransitive
    \/ AddWellSupported
    \/ AddZeroOnlySelf
    \/ AddStronglyConnected
    \/ ExampleGraph
    \/ NoExampleGraph
    \/ ForceDisconnected
    \/ Compile
    \/ Satisfiable
    \/ Solve
    \/ PrintGraph

Spec == Init /\ [][Next]_vars

\* The solver's search returns exactly assignments satisfying all of E.
ModelsSatisfy == \A m \in T : Satisfies(m)

(***************************************************************************)
(* Graph notions the properties are stated with, computed from the edges   *)
(* of a model alone.                                                       *)
(***************************************************************************)

TrueEdges(m) == m.Edge

\* the nodes at the end of a directed walk of exactly d edges from x
RECURSIVE Walk(_, _, _)
Walk(m, x, d) ==
    IF d = 0 THEN {x}
    ELSE {y \in Nodes : \E b \in Walk(m, x, d - 1) : <<b, y>> \in m.Edge}

PathLengths(m, x, y) == {d \in 0 .. (NUM_NODES - 1) : y \in Walk(m, x, d)}

CanReach(m, x, y) == PathLengths(m, x, y) # {}

\* length of a shortest directed path, -1 when there is none
ShortestPath(m, x, y) ==
    IF PathLengths(m, x, y) = {} THEN -1
    ELSE CHOOSE d \in PathLengths(m, x, y) :
            \A e \in PathLengths(m, x, y) : d <= e

IsStronglyConnected(m) == \A x, y \in Nodes : CanReach(m, x, y)

\* the nodes joined to n0 by a chain of pairs related by link, at most
\* steps long
RECURSIVE Chain(_, _, _)
Chain(m, link(_, _, _), steps) ==
    IF steps = 0 THEN {0}
    ELSE LET S == Chain(m, link, steps - 1)
         IN  S \cup {y \in Nodes : \E x \in S : link(m, x, y)}

EitherEdge(m, x, y) == <<x, y>> \in m.Edge \/ <<y, x>> \in m.Edge

AdjacentPair(m, x, y) == <<x, y>> \in m.Adjacent

\* every node is connected to the root n0, directions ignored
AllConnectedToRoot(m) == Chain(m, EitherEdge, NUM_NODES) = Nodes

\* the nodes reachable from n0 through a chain of Adjacent pairs
RootComponent(m) == Chain(m, AdjacentPair, NUM_NODES)

(***************************************************************************)
(* Properties                                                              *)
(***************************************************************************)

\* C1: in every satisfying assignment STRONGLY_CONNECTED is true exactly
\* when the graph of the true edges is strongly connected; for N=4 pinned
\* to the cycle 0->1->2->3->0 the theory is satisfiable and the property
\* is true.
C1_StronglyConnectedExact ==
    /\ \A m \in T : m.STRONGLY_CONNECTED <=> IsStronglyConnected(m)
    /\ (version = 2 /\ ~FORCE_DISCONNECTED /\ satisfiable # "unknown")
          => (satisfiable = "True" /\ \A m \in T : m.STRONGLY_CONNECTED)
    /\ (version = 2 /\ pc = "done") => out.strongly_connected

C1_Witness ==
    /\ pc = "done"
    /\ version = 2
    /\ NUM_NODES = 4
    /\ out.strongly_connected
    /\ out.adjacency = (0 :> <<1>> @@ 1 :> <<2>> @@ 2 :> <<3>> @@ 3 :> <<0>>)

\* C2: with the force_disconnected block no satisfying assignment has a
\* graph in which every node is connected to n0; for N=4 pinned to the
\* cycle the theory is unsatisfiable.
C2_ForcedDisconnectedUnsat ==
    /\ FORCE_DISCONNECTED => \A m \in T : ~AllConnectedToRoot(m)
    /\ (FORCE_DISCONNECTED /\ version = 2 /\ satisfiable # "unknown")
          => satisfiable = "False"

C2_Witness ==
    /\ FORCE_DISCONNECTED
    /\ version = 2
    /\ NUM_NODES = 4
    /\ "force_disconnected" \in E
    /\ satisfiable = "False"

\* C3: with an example graph pinned for N=4 the theory is satisfiable, the
\* true edges of every satisfying assignment are exactly the declared ones
\* and the decoded adjacency list of graph 1 is n0: n1, n1: n2, n2: n0 n3,
\* n3: n1.
C3_ExampleGraphDecoded ==
    /\ (version # 0 /\ ~FORCE_DISCONNECTED /\ satisfiable # "unknown")
          => satisfiable = "True"
    /\ version = 1 =>
          \A m \in T : TrueEdges(m) =
              {<<0, 1>>, <<1, 2>>, <<2, 0>>, <<2, 3>>, <<3, 1>>}
    /\ version = 2 =>
          \A m \in T : TrueEdges(m) = {<<0, 1>>, <<1, 2>>, <<2, 3>>, <<3, 0>>}
    /\ (version = 1 /\ pc = "done") =>
          out.adjacency =
              (0 :> <<1>> @@ 1 :> <<2>> @@ 2 :> <<0, 3>> @@ 3 :> <<1>>)

C3_Witness ==
    /\ pc = "done"
    /\ version = 1
    /\ satisfiable = "True"
    /\ out.adjacency[2] = <<0, 3>>

\* C4: without an example graph and without forced disconnection the
\* theory is satisfiable for every node count, the graph without edges
\* being one of its models.
C4_BaseSatisfiable ==
    (version = 0 /\ ~FORCE_DISCONNECTED /\ satisfiable # "unknown")
        => (satisfiable = "True" /\ \E m \in T : TrueEdges(m) = {})

C4_Witness ==
    /\ version = 0
    /\ ~FORCE_DISCONNECTED
    /\ NUM_NODES = 3
    /\ satisfiable = "True"

\* C5 as stated: in every satisfying assignment Distance(x,y,n) is true
\* exactly when the shortest directed path from x to y has length n.
C5_DistanceIsShortestPath ==
    \A m \in T : \A t \in Triples :
        t \in m.Distance <=> (ShortestPath(m, t[1], t[2]) = t[3])

\* C5 amended: in every satisfying assignment the least n with
\* Distance(x,y,n) true is the length of the shortest directed path from x
\* to y, and no Distance(x,y,n) is true when there is no path; Distance may
\* also be true for larger n.
C5_LeastDistanceIsShortestPath ==
    \A m \in T : \A p \in Pairs :
        LET sp == ShortestPath(m, p[1], p[2])
            ds == {n \in Dists : <<p[1], p[2], n>> \in m.Distance}
        IN  /\ sp = -1 => ds = {}
            /\ sp # -1 => (sp \in ds /\ \A n \in ds : sp <= n)

C5_Witness ==
    /\ pc = "print_graph"
    /\ version = 2
    /\ \A m \in sol :
          /\ ShortestPath(m, 0, 0) = 0
          /\ ShortestPath(m, 0, 2) = 2
          /\ {n \in Dists : <<0, 0, n>> \in m.Distance} = {0, 4}
          /\ {n \in Dists : <<0, 2, n>> \in m.Distance} = {2}
    /\ sol # {}

\* C6: in every satisfying assignment Distance(x,y,1) is true only if
\* Edge(x,y) is true; for N=2 without edges Distance(n0,n1,1) is false.
C6_DistanceOneNeedsEdge ==
    /\ \A m \in T : \A p \in Pairs :
          <<p[1], p[2], 1>> \in m.Distance => p \in m.Edge
    /\ \A m \in T : (NUM_NODES = 2 /\ TrueEdges(m) = {})
          => <<0, 1, 1>> \notin m.Distance
    /\ (pc = "done" /\ \A n \in Nodes : out.adjacency[n] = << >>)
          => out.distances[1] = << >>

C6_Witness ==
    /\ pc = "done"
    /\ NUM_NODES = 2
    /\ \A m \in sol : TrueEdges(m) = {}
    /\ out.distances[1] = << >>

\* C7: after an unsatisfiable verdict print_graph is never invoked.
C7_NoDecodeAfterUnsat == satisfiable = "False" => ~printed

\* C8 as stated: when the node count is not 4 the example graph fails
\* before any constraint has been added and before compile or solve.
C8_FailsBeforeAnyConstraint ==
    pc = "AssertionError" =>
        (E = {} /\ T = {} /\ satisfiable = "unknown" /\ sol = {} /\ ~printed)

\* C8 amended: when the node count is not 4 the example graph fails before
\* any of its own constraints or the force_disconnected block is added and
\* before compile or solve; the eight blocks of base axioms are already in
\* the encoding at that point.
C8_FailsBeforeCompile ==
    /\ (version # 0 /\ NUM_NODES # 4) =>
          /\ pc \in {"self_loops", "adjacency", "distance_self", "one_hop",
                     "transitive", "well_supported", "zero_only_self",
                     "strongly_connected", "example_graph", "AssertionError"}
          /\ "example_graph" \notin E
          /\ "force_disconnected" \notin E
          /\ T = {}
          /\ satisfiable = "unknown"
          /\ sol = {}
          /\ ~printed
    /\ pc = "AssertionError" =>
          /\ version # 0
          /\ NUM_NODES # 4
          /\ E = {"self_loops", "adjacency", "distance_self", "one_hop",
                  "transitive", "well_supported", "zero_only_self",
                  "strongly_connected"}

C8_Witness ==
    /\ pc = "AssertionError"
    /\ NUM_NODES = 3
    /\ version = 2
    /\ "well_supported" \in E

\* C9: with forced disconnection, in every satisfying assignment
\* Reachable(v) is true exactly when v is reachable from n0 through a chain
\* of Adjacent pairs, and the decoded listing is that set.
C9_ReachableIsRootComponent ==
    FORCE_DISCONNECTED =>
        /\ \A m \in T : \A v \in Nodes :
              v \in m.Reachable <=> v \in RootComponent(m)
        /\ pc = "done" =>
              \A m \in sol : out.reachable = Ascending(RootComponent(m))

\* C10: in every satisfying assignment Distance(x,y,d) is true exactly when
\* there is a directed walk of exactly d edges from x to y, so assignments
\* with the same edges have the same distances.
C10_DistanceIsWalk ==
    /\ \A m \in T : \A t \in Triples :
          t \in m.Distance <=> (t[2] \in Walk(m, t[1], t[3]))
    /\ \A m1, m2 \in T : m1.Edge = m2.Edge => m1.Distance = m2.Distance

C10_Witness ==
    /\ pc = "done"
    /\ version = 2
    /\ out.distances[0] = <<<<0, 0>>, <<1, 1>>, <<2, 2>>, <<3, 3>>>>
    /\ out.distances[4] = <<<<0, 0>>, <<1, 1>>, <<2, 2>>, <<3, 3>>>>

====
